---- MODULE Spec2Model ----
(***************************************************************************)
(* Model of handedness.py: a Streamlit page whose script main() reads five *)
(* number inputs, ratchets the stored population size up to the            *)
(* observation total, and hands the tuple to plot_distributions, which     *)
(* evaluates six distributions and adds them as traces to a 2x3 figure.    *)
(*                                                                         *)
(* Units.  alpha and beta are floats entered with step 0.1; they are held  *)
(* here as integer counts of tenths (ShapeUnit tenths = 1.0).  A success   *)
(* probability is an exact fraction <<num, den>> with den > 0.  The        *)
(* x-axis range of a bar chart is held in halves (-0.5 is -1).             *)
(*                                                                         *)
(* Values.  The density and mass evaluators are the closed forms of the    *)
(* statistics library; every value they return is recorded by its class:   *)
(*   "zero"  exactly 0             "one"  exactly 1                        *)
(*   "frac"  a mass strictly between 0 and 1                               *)
(*   "pos"   a finite positive density                                     *)
(*   "big"   a finite number above 1 returned as a mass                    *)
(*   "inf"   +infinity             "nan"  not a number                     *)
(***************************************************************************)
EXTENDS Integers, Sequences, FiniteSets, TLC

VARIABLES
    alpha,        \* value of the 'Alpha:' widget, in tenths
    beta,         \* value of the 'Beta:' widget, in tenths
    left_count,   \* value of the 'Left-handed count:' widget
    right_count,  \* value of the 'Right-handed count:' widget
    num_people,   \* st.session_state.num_people
    requested,    \* st.session_state.num_people when the last run of main() began
    lastEdit,     \* the widget whose change triggered the last run of main()
    raised,       \* TRUE while num_people holds a value written by main()
    call,         \* the arguments of the last call of plot_distributions
    fig,          \* the figure built by the last call of plot_distributions
    shown         \* TRUE once st.plotly_chart has been reached

vars == <<alpha, beta, left_count, right_count, num_people, requested,
          lastEdit, raised, call, fig, shown>>

----------------------------------------------------------------------------
(* Bounds of the model and constants of the program *)

MaxShape == 2          \* largest whole shape parameter a user enters
MaxCount == 4          \* largest count a user enters
MaxPop == 12           \* largest population size a user enters
MaxEnginePop == 20     \* largest population size a direct caller passes
MinInput == 1          \* how far below 0 a direct caller's arguments reach

ShapeUnit == 10        \* tenths in 1.0: the shape widgets step by 0.1
DefaultShape == 10     \* value=1.0 of the shape widgets, in tenths
DefaultPeople == 10    \* st.session_state.num_people = 10
MinPeople == 1         \* min_value=1 of the population widget
NumPoints == 1000      \* np.linspace(0, 1, 1000)

Max(a, b) == IF a >= b THEN a ELSE b

\* values the shape widgets can hold: min_value=0.0, any multiple of 0.1
ShapeInputs == {ShapeUnit \div 2} \cup {ShapeUnit * k : k \in 0..MaxShape}
\* values the count widgets can hold: min_value=0, step=1
CountInputs == 0..MaxCount
\* values the population widget can hold: min_value=1, step=1
PeopleInputs == MinPeople..MaxPop

\* the 2x3 grid of make_subplots
Slots == {<<r, c>> : r \in 1..2, c \in 1..3}

----------------------------------------------------------------------------
(* numpy helpers *)

\* np.arange(a, b): the integers a, a+1, ..., b-1 (empty when b <= a)
arange(a, b) == [i \in 1..Max(b - a, 0) |-> a + i - 1]

\* np.linspace(0, 1, NumPoints), kept as its description; a curve sampled on
\* it is kept as the class of its value at the first point (x = 0), at the
\* interior points (0 < x < 1) and at the last point (x = 1).
linspace == [start |-> 0, stop |-> 1, num |-> NumPoints]
GridPoints == {"first", "interior", "last"}

\* Python's true division n / d for d # 0, as a fraction with a positive
\* denominator
TrueDiv(n, d) == IF d < 0 THEN <<-n, -d>> ELSE <<n, d>>

----------------------------------------------------------------------------
(* The evaluators of the statistics library: pz.Beta(a, b).pdf,            *)
(* pz.Binomial(n, p).pdf and pz.BetaBinomial(a, b, n).pdf.  None of them   *)
(* checks its parameters; each evaluates exp(logpdf) with                  *)
(* 0 * log(0) = 0 and returns mass 0 outside 0..n.                         *)

\* exp((a-1) log x) at x = 0 (or (b-1) log(1-x) at x = 1): the end factor
EndFactor(a) ==
    IF a < ShapeUnit THEN "inf" ELSE IF a = ShapeUnit THEN "one" ELSE "zero"

\* Beta(a, b) density at a grid point.  B(a, b) is infinite when a or b is
\* 0, and the log density is then (end term) - infinity.
BetaPdf(a, b, pt) ==
    IF a < 0 \/ b < 0 THEN "nan"
    ELSE IF a > 0 /\ b > 0
    THEN CASE pt = "interior" -> "pos"
           [] pt = "first" ->
                IF EndFactor(a) = "one" THEN "pos" ELSE EndFactor(a)
           [] pt = "last" ->
                IF EndFactor(b) = "one" THEN "pos" ELSE EndFactor(b)
    ELSE CASE pt = "interior" -> "zero"
           [] pt = "first" -> IF EndFactor(a) = "inf" THEN "nan" ELSE "zero"
           [] pt = "last" -> IF EndFactor(b) = "inf" THEN "nan" ELSE "zero"

\* Binomial(n, p) mass at y, p = <<num, den>> with den > 0
BinomialPdf(n, p, y) ==
    IF y < 0 \/ y > n THEN "zero"
    ELSE IF p[1] = 0 THEN (IF y = 0 THEN "one" ELSE "zero")
    ELSE IF p[1] = p[2] THEN (IF y = n THEN "one" ELSE "zero")
    ELSE IF 0 < p[1] /\ p[1] < p[2] THEN (IF n = 0 THEN "one" ELSE "frac")
    ELSE IF p[1] < 0
         THEN (IF y > 0 THEN "nan" ELSE IF n = 0 THEN "one" ELSE "big")
         ELSE (IF n - y > 0 THEN "nan" ELSE IF n = 0 THEN "one" ELSE "big")

\* BetaBinomial(a, b, n) mass at y: C(n,y) B(y+a, n-y+b) / B(a, b)
BetaBinomialPdf(a, b, n, y) ==
    IF y < 0 \/ y > n THEN "zero"
    ELSE IF a < 0 \/ b < 0 THEN "nan"
    ELSE IF a > 0 /\ b > 0 THEN (IF n = 0 THEN "one" ELSE "frac")
    ELSE IF (a = 0 /\ y = 0) \/ (b = 0 /\ y = n) THEN "nan"
    ELSE "zero"

----------------------------------------------------------------------------
(* plot_distributions *)

total_count(l, r) == l + r

\* the estimate without its guard on an empty sample
maximum_likelihood_estimate_unguarded(l, r) == <<l, total_count(l, r)>>

maximum_likelihood_estimate(l, r) ==
    IF total_count(l, r) = 0 THEN <<0, 1>> ELSE TrueDiv(l, total_count(l, r))

\* the guard letting an empty sample through
has_observations_or_none(l, r) == total_count(l, r) >= 0

\* the guard of the two `if total_count > 0:' blocks
has_observations(l, r) == total_count(l, r) > 0

x_vals(n) == arange(0, n + 1)

\* the distribution objects, by their parameters
Beta(a, b) == [family |-> "Beta", alpha |-> a, beta |-> b]
Binomial(n, p) == [family |-> "Binomial", n |-> n, p |-> p]
BetaBinomial(a, b, n) ==
    [family |-> "BetaBinomial", alpha |-> a, beta |-> b, n |-> n]

\* dist.pdf(xs): the distribution evaluated and the values returned
pdf(dist, xs) ==
    LET d == dist
        pts == xs
    IN  [dist |-> d,
         values |->
            CASE d.family = "Beta" ->
                   [pt \in GridPoints |-> BetaPdf(d.alpha, d.beta, pt)]
              [] d.family = "Binomial" ->
                   [i \in DOMAIN pts |-> BinomialPdf(d.n, d.p, pts[i])]
              [] d.family = "BetaBinomial" ->
                   [i \in DOMAIN pts |->
                       BetaBinomialPdf(d.alpha, d.beta, d.n, pts[i])]]

prior(a, b) == Beta(a, b)
posterior_left(a, b, l, r) == Beta(a + ShapeUnit * l, b + ShapeUnit * r)
likelihood(l, r) == Beta((l + 1) * ShapeUnit, (r + 1) * ShapeUnit)

posterior_mle(l, r, n) ==
    pdf(Binomial(n - total_count(l, r), maximum_likelihood_estimate(l, r)),
        x_vals(n))

prior_pred(a, b, n) == pdf(BetaBinomial(a, b, n), x_vals(n))

posterior_pred(a, b, l, r, n) ==
    pdf(BetaBinomial(a + ShapeUnit * l, b + ShapeUnit * r,
                     n - total_count(l, r)),
        x_vals(n))

\* go.Scatter(x=xs, y=ys) and go.Bar(x=xs, y=ys)
Scatter(xs, ys) == [type |-> "Scatter", x |-> xs, y |-> ys]
Bar(xs, ys) == [type |-> "Bar", x |-> xs, y |-> ys]

\* the support shifted without taking the observed total off its end
shifted_support_past_end(l, r, n) == arange(l, n + l + 1)

\* x of the two bar charts of the remaining population
shifted_support(l, r, n) == arange(l, n - total_count(l, r) + l + 1)

\* the traces added to each slot, in the order of the add_trace calls
traces(a, b, l, r, n) ==
    [s \in Slots |->
        CASE s = <<1, 1>> -> <<Scatter(linspace, pdf(prior(a, b), linspace))>>
          [] s = <<1, 2>> ->
               IF has_observations(l, r)
               THEN <<Scatter(linspace, pdf(likelihood(l, r), linspace))>>
               ELSE <<>>
          [] s = <<1, 3>> ->
               IF has_observations(l, r)
               THEN <<Scatter(linspace,
                              pdf(posterior_left(a, b, l, r), linspace))>>
               ELSE <<>>
          [] s = <<2, 1>> ->
               LET ys == prior_pred(a, b, n)
               IN  <<Bar(arange(0, Len(ys.values)), ys)>>
          [] s = <<2, 2>> ->
               IF has_observations(l, r)
               THEN <<Bar(shifted_support(l, r, n), posterior_mle(l, r, n))>>
               ELSE <<>>
          [] s = <<2, 3>> ->
               IF has_observations(l, r)
               THEN <<Bar(shifted_support(l, r, n),
                          posterior_pred(a, b, l, r, n))>>
               ELSE <<>>]

\* fig.update_xaxes(range=[-0.5, num_people+0.5]) of slots (2,2) and (2,3),
\* in halves
xaxis_range(n) == [lo |-> -1, hi |-> 2 * n + 1]

\* the figure handed to st.plotly_chart, with the locals it was built from
plot_distributions(a, b, l, r, n) ==
    [total_count |-> total_count(l, r),
     maximum_likelihood_estimate |-> maximum_likelihood_estimate(l, r),
     posterior_mle |-> posterior_mle(l, r, n),
     traces |-> traces(a, b, l, r, n),
     xrange |-> xaxis_range(n)]

\* make_subplots(rows=2, cols=3) before any add_trace
EmptyFig ==
    [total_count |-> 0, maximum_likelihood_estimate |-> <<0, 1>>,
     posterior_mle |-> pdf(Binomial(0, <<0, 1>>), <<>>),
     traces |-> [s \in Slots |-> <<>>],
     xrange |-> xaxis_range(0)]

Args(a, b, l, r, n) ==
    [alpha |-> a, beta |-> b, left_count |-> l, right_count |-> r,
     num_people |-> n]

----------------------------------------------------------------------------
(* main *)

\* intake that never writes the session state
Intake_unraised(ss, total) == ss

\* intake that copies every positive total into the session state
Intake_following(ss, total) == IF total >= MinPeople THEN total ELSE ss

\* if total > st.session_state.num_people: st.session_state.num_people = total
Intake(ss, total) == IF total > ss THEN total ELSE ss

\* One run of the script main() with the widgets holding a, b, l, r and the
\* session state holding ss when the run begins, triggered by a change of
\* the widget `edit'.
Run(a, b, l, r, ss, edit) ==
    LET n == Intake(ss, l + r) IN
    /\ alpha' = a
    /\ beta' = b
    /\ left_count' = l
    /\ right_count' = r
    /\ requested' = ss
    /\ lastEdit' = edit
    /\ raised' = IF n # ss THEN TRUE
                 ELSE IF edit = "num_people" THEN FALSE ELSE raised
    /\ num_people' = n
    /\ call' = Args(a, b, l, r, n)
    /\ fig' = plot_distributions(a, b, l, r, n)
    /\ shown' = TRUE

\* the state after the first run of main(): every widget at its default
Init ==
    /\ alpha = DefaultShape
    /\ beta = DefaultShape
    /\ left_count = 0
    /\ right_count = 0
    /\ requested = DefaultPeople
    /\ lastEdit = "none"
    /\ raised = FALSE
    /\ num_people = Intake(DefaultPeople, 0)
    /\ call = Args(DefaultShape, DefaultShape, 0, 0, Intake(DefaultPeople, 0))
    /\ fig = plot_distributions(DefaultShape, DefaultShape, 0, 0,
                                Intake(DefaultPeople, 0))
    /\ shown = TRUE

SetAlpha ==
    \E v \in ShapeInputs \ {alpha} :
        Run(v, beta, left_count, right_count, num_people, "alpha")

SetBeta ==
    \E v \in ShapeInputs \ {beta} :
        Run(alpha, v, left_count, right_count, num_people, "beta")

SetLeft ==
    \E v \in CountInputs \ {left_count} :
        Run(alpha, beta, v, right_count, num_people, "left_count")

SetRight ==
    \E v \in CountInputs \ {right_count} :
        Run(alpha, beta, left_count, v, num_people, "right_count")

\* the population widget is keyed: its new value is in the session state
\* when the run begins
SetPeople ==
    \E v \in PeopleInputs \ {num_people} :
        Run(alpha, beta, left_count, right_count, v, "num_people")

Next == SetAlpha \/ SetBeta \/ SetLeft \/ SetRight \/ SetPeople

Spec == Init /\ [][Next]_vars

----------------------------------------------------------------------------
(* plot_distributions called directly, without main()'s widgets *)

EngineShapes == {-ShapeUnit * MinInput} \cup ShapeInputs
EngineCounts == (-MinInput)..MaxCount
EnginePeople == (-MinInput)..MaxEnginePop

InitEngine ==
    /\ alpha \in EngineShapes
    /\ beta \in EngineShapes
    /\ left_count \in EngineCounts
    /\ right_count \in EngineCounts
    /\ num_people \in EnginePeople
    /\ requested = num_people
    /\ lastEdit = "none"
    /\ raised = FALSE
    /\ call = Args(alpha, beta, left_count, right_count, num_people)
    /\ fig = EmptyFig
    /\ shown = FALSE

CallEngine ==
    /\ ~shown
    /\ fig' = plot_distributions(call.alpha, call.beta, call.left_count,
                                 call.right_count, call.num_people)
    /\ shown' = TRUE
    /\ UNCHANGED <<alpha, beta, left_count, right_count, num_people,
                   requested, lastEdit, raised, call>>

NextEngine == CallEngine

SpecEngine == InitEngine /\ [][NextEngine]_vars

----------------------------------------------------------------------------
(* Properties *)

Total == left_count + right_count
CallTotal == call.left_count + call.right_count
DataSlots == {<<1, 2>>, <<1, 3>>, <<2, 2>>, <<2, 3>>}
RemainderSlots == {<<2, 2>>, <<2, 3>>}
CountEdits == {"left_count", "right_count"}

\* the arguments no widget of main() can produce
Bypassing(c) ==
    \/ c.alpha < 0 \/ c.beta < 0
    \/ c.left_count < 0 \/ c.right_count < 0
    \/ c.num_people <= 0
    \/ c.num_people < c.left_count + c.right_count

HasNaN(tr) == \E k \in DOMAIN tr.y.values : tr.y.values[k] = "nan"

\* C1: in every render the population size handed to plot_distributions is
\* max(session value at the start of the render, left_count + right_count);
\* when the session value is below the total it is the total exactly, and
\* the number of remaining people is never negative.
C1_RatchetLaw ==
    /\ shown
    /\ call.left_count = left_count /\ call.right_count = right_count
    /\ call.num_people = Max(requested, Total)
    /\ (requested < Total => call.num_people = Total)
    /\ fig.posterior_mle.dist.n = call.num_people - Total
    /\ fig.posterior_mle.dist.n >= 0

\* a render that began with the session value below the observation total
C1_Witness ==
    /\ shown
    /\ lastEdit = "num_people"
    /\ requested < Total
    /\ call.num_people = Total
    /\ fig.posterior_mle.dist.n = 0

\* C2: a run of main() never leaves the session value below the value it
\* began with, and a run not triggered by the population widget begins with
\* the stored value and never lowers it: a value once raised to an
\* observation total stays when the total later falls below it.
C2_OneWayRatchet ==
    [][/\ num_people' >= requested'
       /\ (lastEdit' # "num_people" =>
             /\ requested' = num_people
             /\ num_people' >= num_people
             /\ (raised /\ left_count' + right_count' < num_people =>
                   num_people' = num_people /\ raised'))]_vars

\* the value raised to a total is still stored after a count was lowered
C2_Witness ==
    /\ raised
    /\ lastEdit \in CountEdits
    /\ requested = num_people
    /\ Total < num_people

\* C3: Likelihood (1,2), Posterior (1,3), plug-in prediction (2,2) and
\* posterior predictive (2,3) are emitted exactly when
\* left_count + right_count > 0; Prior (1,1) and prior predictive (2,1) are
\* emitted on every call.
C3_EmissionGuard ==
    shown =>
        LET l == call.left_count
            r == call.right_count
            tr(s) == fig.traces[s][1]
        IN  /\ \A s \in Slots : Len(fig.traces[s]) <= 1
            /\ \A s \in DataSlots : (Len(fig.traces[s]) = 1) <=> (l + r > 0)
            /\ Len(fig.traces[<<1, 1>>]) = 1
            /\ tr(<<1, 1>>).type = "Scatter"
            /\ tr(<<1, 1>>).y.dist = Beta(call.alpha, call.beta)
            /\ Len(fig.traces[<<2, 1>>]) = 1
            /\ tr(<<2, 1>>).type = "Bar"
            /\ tr(<<2, 1>>).y.dist =
                   BetaBinomial(call.alpha, call.beta, call.num_people)
            /\ (l + r > 0 =>
                  /\ tr(<<1, 2>>).type = "Scatter"
                  /\ tr(<<1, 2>>).y.dist.family = "Beta"
                  /\ tr(<<1, 2>>).y.dist.alpha = (l + 1) * ShapeUnit
                  /\ tr(<<1, 2>>).y.dist.beta = (r + 1) * ShapeUnit
                  /\ tr(<<1, 3>>).type = "Scatter"
                  /\ tr(<<1, 3>>).y.dist.family = "Beta"
                  /\ tr(<<1, 3>>).y.dist.alpha = call.alpha + ShapeUnit * l
                  /\ tr(<<1, 3>>).y.dist.beta = call.beta + ShapeUnit * r
                  /\ tr(<<2, 2>>).type = "Bar"
                  /\ tr(<<2, 2>>).y.dist.family = "Binomial"
                  /\ tr(<<2, 3>>).type = "Bar"
                  /\ tr(<<2, 3>>).y.dist.family = "BetaBinomial")

\* a render with observations: all six series are in the figure
C3_Witness ==
    /\ shown
    /\ lastEdit \in CountEdits
    /\ Total > 0
    /\ \A s \in Slots : Len(fig.traces[s]) = 1

\* C4: when num_people = left_count + right_count > 0 the plug-in and the
\* posterior-predictive series each have the single support point
\* left_count, carrying mass 1 (no other mass is non-zero).
C4_DegenerateSupport ==
    (shown /\ CallTotal > 0 /\ call.num_people = CallTotal) =>
        \A s \in RemainderSlots :
            /\ Len(fig.traces[s]) = 1
            /\ fig.traces[s][1].x = <<call.left_count>>
            /\ Len(fig.traces[s][1].y.values) >= 1
            /\ fig.traces[s][1].y.values[1] = "one"
            /\ \A i \in 2..Len(fig.traces[s][1].y.values) :
                   fig.traces[s][1].y.values[i] = "zero"

\* C5: when the total is positive the plug-in and posterior-predictive mass
\* arrays have remaining + 1 entries, as many as the support array, which
\* is left_count .. left_count + remaining.
C5_MassOverSupport ==
    (shown /\ CallTotal > 0) =>
        \A s \in RemainderSlots :
            LET tr == fig.traces[s][1]
                remaining == call.num_people - CallTotal
            IN  /\ Len(fig.traces[s]) = 1
                /\ tr.x = arange(call.left_count,
                                 call.left_count + remaining + 1)
                /\ Len(tr.y.values) = remaining + 1
                /\ Len(tr.y.values) = Len(tr.x)

\* C7: plot_distributions called with a negative shape parameter, a
\* negative count, or a population size that is not positive or is below
\* left_count + right_count emits no series.
C7_BypassEmitsNothing ==
    (shown /\ Bypassing(call)) => \A s \in Slots : fig.traces[s] = <<>>

\* C8: with alpha = 0 or beta = 0 entered in the widgets, no series handed
\* to the figure holds a NaN.
C8_NoNaNForwarded ==
    (shown /\ (alpha = 0 \/ beta = 0)) =>
        \A s \in Slots :
            \A i \in 1..Len(fig.traces[s]) : ~HasNaN(fig.traces[s][i])

\* C9: for non-negative counts the plug-in probability is 0 on an empty
\* sample and left_count / (left_count + right_count) otherwise, its
\* denominator is never 0, it lies in [0, 1], and the plug-in distribution
\* is the Binomial with num_people - total trials and that probability.
C9_PlugInProbability ==
    (shown /\ call.left_count >= 0 /\ call.right_count >= 0) =>
        LET p == fig.maximum_likelihood_estimate
        IN  /\ p[2] > 0
            /\ (CallTotal = 0 => p[1] = 0)
            /\ (CallTotal # 0 => p[1] * CallTotal = call.left_count * p[2])
            /\ 0 <= p[1] /\ p[1] <= p[2]
            /\ fig.posterior_mle.dist =
                   Binomial(call.num_people - CallTotal, p)
            /\ (CallTotal > 0 =>
                  fig.traces[<<2, 2>>] =
                      <<Bar(fig.traces[<<2, 2>>][1].x, fig.posterior_mle)>>)

\* alpha = 2, beta = 2, left = 4, right = 1, population = 20: p = 4/5,
\* 15 trials, plotted over 4..19
C9_Witness ==
    /\ shown
    /\ call = Args(2 * ShapeUnit, 2 * ShapeUnit, 4, 1, 20)
    /\ fig.maximum_likelihood_estimate[1] * 5
           = 4 * fig.maximum_likelihood_estimate[2]
    /\ fig.posterior_mle.dist.n = 15
    /\ fig.traces[<<2, 2>>][1].x = arange(4, 20)

\* C10: after any sequence of widget changes, every support point of the
\* plug-in and posterior-predictive bars lies in 0 .. num_people, inside
\* the x-axis range [-0.5, num_people + 0.5]; the bars run from left_count
\* to num_people - right_count.
C10_BarsInsideAxis ==
    shown =>
        \A s \in RemainderSlots :
            \A i \in 1..Len(fig.traces[s]) :
                LET xs == fig.traces[s][i].x
                IN  /\ \A k \in 1..Len(xs) :
                          /\ xs[k] \in 0..call.num_people
                          /\ fig.xrange.lo <= 2 * xs[k]
                          /\ 2 * xs[k] <= fig.xrange.hi
                    /\ Len(xs) >= 1
                    /\ xs[1] = call.left_count
                    /\ xs[Len(xs)] = call.num_people - call.right_count

\* bars drawn with both counts positive and people left to predict
C10_Witness ==
    /\ shown
    /\ left_count > 0 /\ right_count > 0
    /\ num_people > Total
    /\ \A s \in RemainderSlots :
           /\ Len(fig.traces[s]) = 1
           /\ Len(fig.traces[s][1].x) = num_people - Total + 1

====
